---- MODULE Spec2Model ----
(***************************************************************************)
(* Model of quadrotor3D.py: the quadrotor dynamics CalcF, the rotation     *)
(* kinematics it is built from, and the closed-loop Euler simulation of    *)
(* the __main__ block, followed by the trajectory's two consumers.         *)
(*                                                                         *)
(* Numbers.  The program computes in IEEE double precision.  The model     *)
(* computes in signed fixed point: the integer v stands for the real       *)
(* v / Scale, every product and quotient is rounded to the nearest         *)
(* representable value (ties away from zero, so that rounding commutes     *)
(* with negation as it does for doubles), and a result whose magnitude     *)
(* exceeds MaxFinite is the single absorbing value NonFinite, which stands *)
(* for inf, -inf and nan alike.  The program never compares numbers, and   *)
(* it divides only by cos(pitch), cos(pitch)^2, mass and the inertia, so   *)
(* a non-finite operand always gives a non-finite result: one absorbing    *)
(* value is exact for the question "is this component finite".             *)
(***************************************************************************)
EXTENDS Integers, Sequences, FiniteSets, TLC

\* Precision: Scale = Base * Base values per unit (products are formed from
\* base-Base digits so that no intermediate leaves TLC's 32-bit integers).
Base == 1000

Scale == Base * Base

\* The real 1.0
One == Scale

\* Range: the largest finite magnitude, in units.
MaxReal == 1000

MaxFinite == MaxReal * Scale

NonFinite == MaxFinite + 1

IsFinite(a) == a # NonFinite

Abs(a) == IF a < 0 THEN -a ELSE a

Sgn(a) == IF a < 0 THEN -1 ELSE 1

\* Overflow to a non-finite value.
Fin(v) == IF Abs(v) > MaxFinite THEN NonFinite ELSE v

\* n millionths, as a fixed-point value (0 <= n < 2000000).
Micro(n) == (((n * Base) \div 1000) * Base) \div 1000

Neg(a) == IF IsFinite(a) THEN -a ELSE NonFinite

Add(a, b) == IF IsFinite(a) /\ IsFinite(b) THEN Fin(a + b) ELSE NonFinite

Sub(a, b) == IF IsFinite(a) /\ IsFinite(b) THEN Fin(a - b) ELSE NonFinite

\* a * b / Scale for 0 <= a, b <= MaxFinite, rounded to nearest.
MulAbs(a, b) ==
    LET a1 == a \div Base
        a0 == a % Base
        b1 == b \div Base
        b0 == b % Base
        m  == a1 * b0 + a0 * b1
        lo == (m % Base) * Base + a0 * b0
    IN  IF a1 # 0 /\ b1 > MaxFinite \div a1
        THEN NonFinite
        ELSE Fin(a1 * b1 + (m \div Base) + ((lo + Scale \div 2) \div Scale))

Mul(a, b) ==
    IF IsFinite(a) /\ IsFinite(b)
    THEN LET p == MulAbs(Abs(a), Abs(b))
         IN  IF IsFinite(p) THEN Sgn(a) * Sgn(b) * p ELSE NonFinite
    ELSE NonFinite

\* The largest divisor whose remainders times Base stay in 32 bits.
DivLimit == 2147483647 \div Base

\* a * Scale / b for 0 <= a <= MaxFinite, 0 < b <= DivLimit, rounded to
\* nearest: the integer part, then two base-Base digits by long division.
DivAbs(a, b) ==
    LET q  == a \div b
        r  == a % b
        d1 == (r * Base) \div b
        r1 == (r * Base) % b
        d2 == (r1 * Base) \div b
        r2 == (r1 * Base) % b
        up == IF 2 * r2 >= b THEN 1 ELSE 0
    IN  IF q > MaxReal THEN NonFinite
        ELSE Fin(q * Scale + d1 * Base + d2 + up)

\* Floating-point division: x / 0 is inf or nan, never an exception.
Div(a, b) ==
    IF IsFinite(a) /\ IsFinite(b) /\ b # 0
    THEN LET big == Abs(b) > DivLimit
             n   == IF big THEN Abs(a) \div Base ELSE Abs(a)
             d   == IF big THEN Abs(b) \div Base ELSE Abs(b)
             p   == DivAbs(n, d)
         IN  IF IsFinite(p) THEN Sgn(a) * Sgn(b) * p ELSE NonFinite
    ELSE NonFinite

\* The integer k times a value: exact unless it overflows.
IntMul(k, a) ==
    IF ~IsFinite(a) THEN NonFinite
    ELSE IF k # 0 /\ Abs(a) > MaxFinite \div Abs(k) THEN NonFinite
    ELSE k * a

\* Division of a value by the integer k > 0, rounded to nearest.
DivInt(a, k) ==
    IF IsFinite(a)
    THEN Sgn(a) * ((2 * Abs(a) + k) \div (2 * k))
    ELSE NonFinite

\* The element of a one-element set.  Only({ e : v \in {d} }) is e with v
\* bound to the value of d, which is computed once and before e, as the
\* assignment v = d is before the statements that follow it.
Only(S) == CHOOSE v \in S : TRUE

\* np.pi and its half.
Pi == 3 * Scale + Micro(141593)

HalfPi == Scale + Micro(570796)

TwoPi == 6 * Scale + Micro(283185)

\* Terms of the Taylor series kept by Sin and Cos: enough for an error below
\* one unit of the last place on [-pi/2, pi/2].
SeriesTerms == 7

\* Horner evaluation of 1 - x2/(d(k)) (1 - x2/(d(k+1)) (1 - ...)), where
\* d(k) = (2k - 1 + off)(2k + off): off = 0 gives cos, off = 1 gives sin / x.
RECURSIVE Horner(_, _, _)
Horner(x2, k, off) ==
    IF k > SeriesTerms THEN One
    ELSE Only({ Sub(One, DivInt(Mul(x2, h), (2 * k - 1 + off) * (2 * k + off))) :
                    h \in {Horner(x2, k + 1, off)} })

\* The angle a reduced to [-pi, pi).
Reduce(a) == ((a + Pi) % TwoPi) - Pi

Sin(a) ==
    IF ~IsFinite(a) THEN NonFinite
    ELSE LET r == Reduce(a)
             x == IF r > HalfPi THEN Pi - r
                  ELSE IF r < -HalfPi THEN -Pi - r ELSE r
         IN  Only({ Mul(x, h) : h \in {Only({ Horner(x2, 1, 1) : x2 \in {Mul(x, x)} })} })

Cos(a) ==
    IF ~IsFinite(a) THEN NonFinite
    ELSE LET r == Reduce(a)
             x == IF r > HalfPi THEN Pi - r
                  ELSE IF r < -HalfPi THEN -Pi - r ELSE r
         IN  Only({ IF Abs(r) > HalfPi THEN Neg(c) ELSE c :
                        c \in {Only({ Horner(x2, 1, 0) : x2 \in {Mul(x, x)} })} })

(***************************************************************************)
(* Vectors are sequences, matrices are sequences of rows; the program's    *)
(* 0-based index k is the model's index k + 1.                             *)
(***************************************************************************)
\* The function f on 1..k as an array of its k values, each computed once.
Arr(f, k) == SubSeq(f, 1, k)

\* v[lo] + ... + v[hi], added pairwise as numpy adds.
RECURSIVE SumRange(_, _, _)
SumRange(v, lo, hi) ==
    IF lo > hi THEN 0
    ELSE IF lo = hi THEN v[lo]
    ELSE Add(SumRange(v, lo, (lo + hi) \div 2), SumRange(v, (lo + hi) \div 2 + 1, hi))

\* ndarray.sum()
Sum(v) == SumRange(v, 1, Len(v))

\* a.dot(b) for two vectors
Dot(a, b) == Only({ Sum(p) : p \in {Arr([k \in 1..Len(a) |-> Mul(a[k], b[k])], Len(a))} })

\* A.dot(v) for a matrix and a vector
MatVec(A, v) == Arr([r \in 1..Len(A) |-> Dot(A[r], v)], Len(A))

Col(B, c) == Arr([r \in 1..Len(B) |-> B[r][c]], Len(B))

\* A.dot(B) for two matrices
MatMul(A, B) ==
    Arr([r \in 1..Len(A) |->
            Arr([c \in 1..Len(B[1]) |-> Dot(A[r], Col(B, c))], Len(B[1]))],
        Len(A))

VecAdd(a, b) == Arr([k \in 1..Len(a) |-> Add(a[k], b[k])], Len(a))

VecSub(a, b) == Arr([k \in 1..Len(a) |-> Sub(a[k], b[k])], Len(a))

VecNeg(a) == Arr([k \in 1..Len(a) |-> Neg(a[k])], Len(a))

\* scalar * vector
VecScale(c, a) == Arr([k \in 1..Len(a) |-> Mul(c, a[k])], Len(a))

\* np.cross(a, b)
Cross(a, b) ==
    << Sub(Mul(a[2], b[3]), Mul(a[3], b[2])),
       Sub(Mul(a[3], b[1]), Mul(a[1], b[3])),
       Sub(Mul(a[1], b[2]), Mul(a[2], b[1])) >>

\* np.zeros(k)
Zeros(k) == Arr([j \in 1..k |-> 0], k)

\* np.eye(3)
Eye3 == << <<One, 0, 0>>, <<0, One, 0>>, <<0, 0, One>> >>

VecFinite(v) == \A k \in 1..Len(v) : IsFinite(v[k])

MatFinite(A) == \A r \in 1..Len(A) : VecFinite(A[r])

(***************************************************************************)
(* The program's constants.                                                *)
(***************************************************************************)
kF == One

kM == Micro(24500)

\* np.sqrt(2.0)
SqrtTwo == One + Micro(414214)

\* (length of one arm) / sqrt(2)
l == Div(Micro(175000), SqrtTwo)

\* 12 states
n == 12

\* 4 inputs
m == 4

mass == Micro(500000)

\* The inertia tensor; named I in the program.
I == << <<Micro(2300), 0, 0>>, <<0, Micro(2300), 0>>, <<0, 0, Micro(4000)>> >>

g == 10 * One

\* LA.inv of a diagonal matrix: the LU solve of a diagonal matrix divides 1
\* by each diagonal entry and leaves the zeros.
LAinv(A) ==
    Arr([r \in 1..3 |->
            Arr([c \in 1..3 |-> IF r = c THEN Div(One, A[r][r]) ELSE 0], 3)], 3)

(***************************************************************************)
(* Rotation kinematics.                                                    *)
(***************************************************************************)
CalcRx(phi) ==
    Only({ << <<One, 0, 0>>,
              <<0, c, Neg(s)>>,
              <<0, s, c>> >> :
             c \in {Cos(phi)}, s \in {Sin(phi)} })

CalcRy(theta) ==
    Only({ << <<c, 0, Neg(s)>>,
              <<0, One, 0>>,
              <<s, 0, c>> >> :
             c \in {Cos(theta)}, s \in {Sin(theta)} })

CalcRz(psi) ==
    Only({ << <<c, Neg(s), 0>>,
              <<s, c, 0>>,
              <<0, 0, One>> >> :
             c \in {Cos(psi)}, s \in {Sin(psi)} })

\* Transformation matrix from Body frame to World frame.
CalcR_WB(rpy) ==
    Only({ Only({ MatMul(Rz, RyRx) : RyRx \in {MatMul(Ry, Rx)} }) :
             Rz \in {CalcRz(rpy[3])}, Ry \in {CalcRy(rpy[2])}, Rx \in {CalcRx(rpy[1])} })

\* CalcPhiInv with the sign of one entry wrong.
CalcPhiInvSign(rpy) ==
    Only({ << <<One, 0, Neg(sp)>>,
              <<0, cr, Neg(Mul(sr, cp))>>,
              <<0, Neg(sr), Mul(cr, cp)>> >> :
             sr \in {Sin(rpy[1])}, cr \in {Cos(rpy[1])},
             sp \in {Sin(rpy[2])}, cp \in {Cos(rpy[2])} })

\* pqr = Phi_inv * rpy_d
CalcPhiInv(rpy) ==
    Only({ << <<One, 0, Neg(sp)>>,
              <<0, cr, Mul(sr, cp)>>,
              <<0, Neg(sr), Mul(cr, cp)>> >> :
             sr \in {Sin(rpy[1])}, cr \in {Cos(rpy[1])},
             sp \in {Sin(rpy[2])}, cp \in {Cos(rpy[2])} })

\* CalcPhi dividing by cos(roll) where the program divides by cos(pitch).
CalcPhiByRoll(rpy) ==
    Only({ << <<One, Div(Mul(sr, sp), cr), Div(Mul(cr, sp), cr)>>,
              <<0, cr, Neg(sr)>>,
              <<0, Div(sr, cr), Div(cr, cr)>> >> :
             sr \in {Sin(rpy[1])}, cr \in {Cos(rpy[1])},
             sp \in {Sin(rpy[2])}, cp \in {Cos(rpy[2])} })

\* rpy_d = Phi * pqr
CalcPhi(rpy) ==
    Only({ << <<One, Div(Mul(sr, sp), cp), Div(Mul(cr, sp), cp)>>,
              <<0, cr, Neg(sr)>>,
              <<0, Div(sr, cp), Div(cr, cp)>> >> :
             sr \in {Sin(rpy[1])}, cr \in {Cos(rpy[1])},
             sp \in {Sin(rpy[2])}, cp \in {Cos(rpy[2])} })

\* Phi_D[i][j] is the partial of Phi[i][j] with respect to roll, pitch, yaw.
CalcPhiD(rpy) ==
    Only({ Only({ << << z, <<Mul(cr, tp), Div(sr, cp2), 0>>,
                           <<Mul(Neg(sr), tp), Div(cr, cp2), 0>> >>,
                     << z, <<Neg(sr), 0, 0>>,
                           <<Neg(cr), 0, 0>> >>,
                     << z, <<Div(cr, cp), Div(Mul(sr, sp), cp2), 0>>,
                           <<Div(Neg(sr), cp), Div(Mul(cr, sp), cp2), 0>> >> >> :
                    cp2 \in {Mul(cp, cp)}, tp \in {Div(sp, cp)}, z \in {<<0, 0, 0>>} }) :
             sr \in {Sin(rpy[1])}, cr \in {Cos(rpy[1])},
             sp \in {Sin(rpy[2])}, cp \in {Cos(rpy[2])} })

\* Phi_d.dot(rpy_d): the contraction of the last axis of the 3x3x3 array.
TensorVec(T, v) ==
    Arr([r \in 1..3 |-> Arr([c \in 1..3 |-> Dot(T[r][c], v)], 3)], 3)

(***************************************************************************)
(* The dynamics: x_u is the 12 states followed by the 4 inputs.            *)
(***************************************************************************)
\* The moment of the four propeller forces and torques about the body axes.
Moment(uF, uM) ==
    << Mul(l, Add(Add(Sub(Neg(uF[1]), uF[2]), uF[3]), uF[4])),
       Mul(l, Add(Add(Sub(Neg(uF[1]), uF[4]), uF[2]), uF[3])),
       Add(Sub(Add(Neg(uM[1]), uM[2]), uM[3]), uM[4]) >>

\* CalcXyzDD with the weight written as g instead of mass*g.
CalcXyzDDNoMass(rpy, u) ==
    Only({ Only({ Only({ VecScale(Div(One, mass), sum) :
                           sum \in {VecAdd(MatVec(R_WB, F), Fg)} }) :
                    F \in {<<0, 0, Sum(uF)>>} }) :
             uF   \in {VecScale(kF, u)},
             Fg   \in {<<0, 0, Neg(g)>>},
             R_WB \in {CalcR_WB(rpy)} })

\* translational acceleration in world frame
CalcXyzDD(rpy, u) ==
    Only({ Only({ Only({ VecScale(Div(One, mass), sum) :
                           sum \in {VecAdd(MatVec(R_WB, F), Fg)} }) :
                    F \in {<<0, 0, Sum(uF)>>} }) :
             uF   \in {VecScale(kF, u)},
             Fg   \in {<<0, 0, Neg(Mul(mass, g))>>},
             R_WB \in {CalcR_WB(rpy)} })

\* second derivative of roll, pitch, yaw
\* The gyroscopic term np.cross(pqr, I.dot(pqr)).
Gyro(pqr) == Only({ Cross(pqr, Ipqr) : Ipqr \in {MatVec(I, pqr)} })

CalcRpyDD(rpy, rpy_d, u) ==
    Only({ Only({ Only({ Only({ VecAdd(a, b) :
                                  a \in {MatVec(Phi, pqr_d)},
                                  b \in {MatVec(PhiDrpy, pqr)} }) :
                           pqr_d   \in {MatVec(I_inv, net)},
                           PhiDrpy \in {TensorVec(Phi_d, rpy_d)} }) :
                    net \in {VecSub(Moment(uF, uM), Gyro(pqr))} }) :
             I_inv   \in {LAinv(I)},
             uF      \in {VecScale(kF, u)},
             uM      \in {VecScale(kM, u)},
             pqr     \in {Only({ MatVec(Phi_inv, rpy_d) : Phi_inv \in {CalcPhiInv(rpy)} })},
             Phi_d   \in {CalcPhiD(rpy)},
             Phi     \in {CalcPhi(rpy)} })

\* The derivative in the order velocity, acceleration, angle rate, angle
\* second derivative.
AssembleInterleaved(x, xyz_dd, rpy_dd) ==
    Arr([k \in 1..n |-> IF k <= 3 THEN x[k + 6]
                        ELSE IF k <= 6 THEN xyz_dd[k - 3]
                        ELSE IF k <= 9 THEN x[k + 3]
                        ELSE rpy_dd[k - 9]], n)

\* xdot[0:6] = x[6:12]; xdot[6:9] = xyz_dd; xdot[9:12] = rpy_dd
Assemble(x, xyz_dd, rpy_dd) ==
    Arr([k \in 1..n |-> IF k <= 6 THEN x[k + 6]
                        ELSE IF k <= 9 THEN xyz_dd[k - 6]
                        ELSE rpy_dd[k - 9]], n)

CalcF(x_u) ==
    LET x     == SubSeq(x_u, 1, n)
        u     == SubSeq(x_u, n + 1, n + m)
        rpy   == SubSeq(x, 4, 6)
        rpy_d == SubSeq(x, 10, 12)
    IN  Only({ Assemble(x, xyz_dd, rpy_dd) :
                   xyz_dd \in {CalcXyzDD(rpy, u)},
                   rpy_dd \in {CalcRpyDD(rpy, rpy_d, u)} })


(***************************************************************************)
(* The inputs of a run.  The program fixes one value of each; the model    *)
(* also runs the same code on a few others.                                *)
(***************************************************************************)
\* Largest number of integration steps of a run.
MaxN == 3

\* A value given as units and millionths.
Fx(units, micro) == Sgn(units) * (Abs(units) * Scale + Micro(micro))

\* x0 of the program: x0[0:3] = 0.5, x0[5] = 0.5*np.pi
X0Program ==
    Arr([k \in 1..n |-> IF k <= 3 THEN Micro(500000)
                        ELSE IF k = 6 THEN Mul(Micro(500000), Pi) ELSE 0], n)

\* A state at attitude (roll, pitch), yawed, moving and turning.
X0Tilted(roll, pitch) ==
    << Micro(500000), -Micro(250000), Micro(100000),
       roll, pitch, One,
       Micro(100000), -Micro(200000), Micro(300000),
       Micro(200000), -Micro(100000), Micro(50000) >>

\* Roll and pitch angles of the initial states: steps of 0.7 rad.
AngleGrid == { j * Micro(700000) : j \in -2..2 }

X0Set ==
    {X0Program, Zeros(n)}
        \cup { X0Tilted(r, p) : r \in AngleGrid, p \in AngleGrid }
        \cup { X0Tilted(Micro(300000), p) :
                   p \in {HalfPi, -HalfPi, HalfPi - Micro(5000)} }

\* The gain LinearQuadraticRegulator(A0, B0, Q, R) returns for the Jacobian
\* A0, B0 of CalcF at the fixed point, Q = 10*eye(12) and R = eye(4): the
\* solution of the Riccati equation, to six decimals.  Row r is rotor r.
KRow(sx, sy, sroll, spitch, syaw) ==
    << sx * Fx(1, 581139), sy * Fx(1, 581139), Fx(1, 581139),
       sroll * Fx(8, 719281), spitch * Fx(8, 719281), syaw * Fx(1, 581139),
       sx * Fx(2, 292876), sy * Fx(2, 292876), Fx(1, 701554),
       sroll * Fx(1, 606559), spitch * Fx(1, 606559), syaw * Fx(1, 621442) >>

KHover ==
    << KRow( 1,  1, -1, -1, -1),
       KRow(-1,  1, -1,  1,  1),
       KRow(-1, -1,  1,  1, -1),
       KRow( 1, -1,  1, -1,  1) >>

\* The sign of the gain reversed: positive feedback, an unstable loop.
KUnstable == Arr([r \in 1..m |-> VecScale(-20 * One, KHover[r])], m)

KSet == {KHover, KUnstable}

\* dt = 0.001 in the program; 0.1 is a step too large for the loop.
DtSet == {Micro(1000), Micro(100000)}

(***************************************************************************)
(* The state of the program.                                               *)
(***************************************************************************)
VARIABLES
    pc,      \* where the script is: "loop", "plot", "meshcat", "done"
    xd,      \* fixed point: state
    ud,      \* fixed point: input
    K0,      \* LQR gain
    dt,      \* time step
    N,       \* number of steps
    x0,      \* initial state
    x,       \* the trajectory: N+1 rows of n numbers
    i,       \* the next value of the loop variable, range(N)
    x_u,     \* the argument of the last call of CalcF
    xdot,    \* the value the last call of CalcF returned
    t,       \* the sample times
    plots,   \* the (t, column) pair handed to each of the six subplots
    frame,   \* number of samples PlotTrajectoryMeshcat has shown
    vis,     \* the transform last set on vis["quad"]
    raised,  \* the exception that ended the script, "none" if none
    run,     \* how many times the script has been started
    first    \* the trajectory of the run before this one, if any

vars == <<pc, xd, ud, K0, dt, N, x0, x, i, x_u, xdot, t, plots, frame, vis,
          raised, run, first>>

inputs == <<xd, ud, K0, dt, N, x0>>

\* np.hstack((a, b))
hstack(a, b) == a \o b

\* The feedback with the sign of the gain term wrong.
FeedbackSign(K, xi, xe, ue) ==
    Only({ VecAdd(Kerr, ue) :
             Kerr \in {Only({ MatVec(K, err) : err \in {VecSub(xi, xe)} })} })

\* -K0.dot(x[i]-xd) + ud
Feedback(K, xi, xe, ue) ==
    Only({ VecAdd(VecNeg(Kerr), ue) :
             Kerr \in {Only({ MatVec(K, err) : err \in {VecSub(xi, xe)} })} })

\* The Euler step without the factor dt.
EulerNoDt(xi, h, f) == VecAdd(xi, f)

\* x[i] + dt*CalcF(x_u)
Euler(xi, h, f) == Only({ VecAdd(xi, hf) : hf \in {VecScale(h, f)} })

\* The state after lines 184-205, for the inputs x0v, kv, h and steps.
Start(x0v, kv, h, steps) ==
    /\ xd = Zeros(n)
    /\ ud = Arr([k \in 1..m |-> DivInt(Mul(mass, g), 4)], m)
    /\ K0 = kv
    /\ dt = h
    /\ N = steps
    /\ x0 = x0v
    /\ x = Arr([k \in 1..steps + 1 |-> IF k = 1 THEN x0v ELSE Zeros(n)], steps + 1)
    /\ i = 0
    /\ x_u = hstack(xd, ud)
    /\ xdot = CalcF(x_u)
    /\ t = << >>
    /\ plots = << >>
    /\ frame = 0
    /\ vis = << >>
    /\ raised = "none"
    /\ run = 1
    /\ first = << >>
    /\ pc = "loop"

Init ==
    \E x0v \in X0Set, kv \in KSet, h \in DtSet, steps \in 0..MaxN :
        Start(x0v, kv, h, steps)

\* A loop iteration that stops the script at the first non-finite sample.
StepFailFast ==
    /\ pc = "loop"
    /\ i < N
    /\ x_u' = hstack(x[i + 1], Feedback(K0, x[i + 1], xd, ud))
    /\ xdot' = CalcF(x_u')
    /\ x' = [x EXCEPT ![i + 2] = Euler(x[i + 1], dt, xdot')]
    /\ i' = i + 1
    /\ IF VecFinite(x'[i + 2])
       THEN UNCHANGED <<pc, raised>>
       ELSE pc' = "done" /\ raised' = "NumericalDivergenceError"
    /\ UNCHANGED <<inputs, t, plots, frame, vis, run, first>>

\* A loop iteration that integrates the derivative of the call before.
StepStale ==
    /\ pc = "loop"
    /\ i < N
    /\ x_u' = hstack(x[i + 1], Feedback(K0, x[i + 1], xd, ud))
    /\ xdot' = CalcF(x_u')
    /\ x' = [x EXCEPT ![i + 2] = Euler(x[i + 1], dt, xdot)]
    /\ i' = i + 1
    /\ UNCHANGED <<pc, inputs, t, plots, frame, vis, raised, run, first>>

\* One iteration of the loop: lines 208-209.
Step ==
    /\ pc = "loop"
    /\ i < N
    /\ x_u' = hstack(x[i + 1], Feedback(K0, x[i + 1], xd, ud))
    /\ xdot' = CalcF(x_u')
    /\ x' = [x EXCEPT ![i + 2] = Euler(x[i + 1], dt, xdot')]
    /\ i' = i + 1
    /\ UNCHANGED <<pc, inputs, t, plots, frame, vis, raised, run, first>>

\* The end of the loop with t = dt*np.arange(N).
LoopEndShort ==
    /\ pc = "loop"
    /\ i = N
    /\ t' = Arr([k \in 1..N |-> IntMul(k - 1, dt)], N)
    /\ pc' = "plot"
    /\ UNCHANGED <<inputs, x, i, x_u, xdot, plots, frame, vis, raised, run, first>>

\* range(N) is exhausted: t = dt*np.arange(N+1)
LoopEnd ==
    /\ pc = "loop"
    /\ i = N
    /\ t' = Arr([k \in 1..N + 1 |-> IntMul(k - 1, dt)], N + 1)
    /\ pc' = "plot"
    /\ UNCHANGED <<inputs, x, i, x_u, xdot, plots, frame, vis, raised, run, first>>

\* x[:, c]
Column(a, c) == Arr([k \in 1..Len(a) |-> a[k][c]], Len(a))

\* The six subplots: x, y, z, roll, pitch, yaw against t.
Plot ==
    /\ pc = "plot"
    /\ plots' = Arr([c \in 1..6 |-> <<t, Column(x, c)>>], 6)
    /\ pc' = "meshcat"
    /\ UNCHANGED <<inputs, x, i, x_u, xdot, t, frame, vis, raised, run, first>>

\* tf.translation_matrix(xyz) with T[0:3,0:3] = R_WB
Transform(xi) ==
    LET R_WB == CalcR_WB(SubSeq(xi, 4, 6))
    IN  Arr([r \in 1..4 |-> IF r = 4 THEN <<0, 0, 0, One>> ELSE R_WB[r] \o <<xi[r]>>], 4)

\* A playback pass that clears the sample it has shown.
ShowFrameClearing ==
    /\ pc = "meshcat"
    /\ frame < Len(x)
    /\ vis' = Transform(x[frame + 1])
    /\ frame' = frame + 1
    /\ x' = [x EXCEPT ![frame + 1] = Zeros(n)]
    /\ UNCHANGED <<pc, inputs, i, x_u, xdot, t, plots, raised, run, first>>

\* One pass of "for xi in x" of PlotTrajectoryMeshcat.
ShowFrame ==
    /\ pc = "meshcat"
    /\ frame < Len(x)
    /\ vis' = Transform(x[frame + 1])
    /\ frame' = frame + 1
    /\ UNCHANGED <<pc, inputs, x, i, x_u, xdot, t, plots, raised, run, first>>

\* PlotTrajectoryMeshcat returns and the script ends.
PlaybackEnd ==
    /\ pc = "meshcat"
    /\ frame = Len(x)
    /\ pc' = "done"
    /\ UNCHANGED <<inputs, x, i, x_u, xdot, t, plots, frame, vis, raised, run, first>>

Next == Step \/ LoopEnd \/ Plot \/ ShowFrame \/ PlaybackEnd

Spec == Init /\ [][Next]_vars

\* The initial states of the runs whose termination is checked.
X0Live == {X0Program, Zeros(n), X0Tilted(Micro(700000), Micro(700000)),
           X0Tilted(Micro(300000), HalfPi)}

InitLive ==
    \E x0v \in X0Live, kv \in KSet, h \in DtSet, steps \in 0..MaxN :
        Start(x0v, kv, h, steps)

\* The script is one thread that runs to its end: a step that can be taken
\* is taken.
SpecLive == InitLive /\ [][Next]_vars /\ WF_vars(Next)

\* The sample that follows xi: lines 208-209 for one i.
NextSample(xi, K, xe, ue, h) ==
    Only({ Only({ Euler(xi, h, f) : f \in {CalcF(hstack(xi, u))} }) :
             u \in {Feedback(K, xi, xe, ue)} })

\* The samples xs followed by the k samples the loop adds to them.
RECURSIVE RunLoop(_, _, _, _, _, _)
RunLoop(xs, k, K, xe, ue, h) ==
    IF k = 0 THEN xs
    ELSE IF k = 1 THEN Append(xs, NextSample(xs[Len(xs)], K, xe, ue, h))
    ELSE CHOOSE all \in { RunLoop(half, k - k \div 2, K, xe, ue, h) :
                              half \in {RunLoop(xs, k \div 2, K, xe, ue, h)} } : TRUE

\* The whole loop of lines 207-209 in one step: no other code runs between
\* two iterations, so the loop is the composition of its N iterations.
Simulate ==
    /\ pc = "loop"
    /\ i = 0
    /\ N > 0
    /\ x' = RunLoop(<<x0>>, N, K0, xd, ud, dt)
    /\ i' = N
    /\ x_u' = hstack(x'[N], Feedback(K0, x'[N], xd, ud))
    /\ xdot' = CalcF(x_u')
    /\ UNCHANGED <<pc, inputs, t, plots, frame, vis, raised, run, first>>

\* The run the program makes: N = int(5.0/dt) steps of dt = 0.001 from
\* X0Program under the gain of the fixed point.
InitHover == Start(X0Program, KHover, Micro(1000), (5 * One) \div Micro(1000))

NextHover == Simulate \/ LoopEnd \/ Plot \/ ShowFrame \/ PlaybackEnd

SpecHover == InitHover /\ [][NextHover]_vars

\* The simulation started again on the same inputs, in the same interpreter:
\* lines 198-205 run again (x is allocated anew and x[0] set), and x_u, xdot
\* and every other global keep the values the first run left.
Rerun ==
    /\ pc = "done"
    /\ run = 1
    /\ first' = x
    /\ run' = 2
    /\ x' = Arr([k \in 1..N + 1 |-> IF k = 1 THEN x0 ELSE Zeros(n)], N + 1)
    /\ i' = 0
    /\ UNCHANGED <<x_u, xdot>>
    /\ t' = << >>
    /\ plots' = << >>
    /\ frame' = 0
    /\ vis' = << >>
    /\ pc' = "loop"
    /\ UNCHANGED <<inputs, raised>>

NextRerun == Next \/ Rerun

SpecRerun == Init /\ [][NextRerun]_vars

(***************************************************************************)
(* Properties.                                                             *)
(***************************************************************************)
\* The state and the input of the fixed point: lines 184-185.
HoverPoint == hstack(Zeros(n), <<DivInt(Mul(mass, g), 4), DivInt(Mul(mass, g), 4),
                                 DivInt(Mul(mass, g), 4), DivInt(Mul(mass, g), 4)>>)

\* The input part, the angles and the angle rates of an argument of CalcF.
InputOf(xu) == SubSeq(xu, 13, 16)

AnglesOf(xu) == SubSeq(xu, 4, 6)

RatesOf(xu) == SubSeq(xu, 10, 12)

\* The shape of a run at any moment: the counter is within 0..N, the
\* trajectory has N+1 samples of which sample 0 is x0, the loop is left only
\* at i = N, and then the time of sample k is k*dt.
C1_Samples ==
    /\ i \in 0..N
    /\ Len(x) = N + 1
    /\ x[1] = x0
    /\ pc # "loop" =>
          /\ i = N
          /\ Len(t) = N + 1
          /\ \A k \in 0..N : t[k + 1] = k * dt
    /\ N = 0 => x = <<x0>>

\* C1: for every N >= 0, x0 and dt, a run makes exactly N integration steps,
\* the counter going from 0 to N, and then terminates with a trajectory of
\* N+1 samples whose sample 0 is x0 and whose sample k is at time k*dt; with
\* N = 0 no step is made and the trajectory is the single sample x0.
C1_StepsAndSamples == []C1_Samples /\ <>(pc = "done" /\ i = N)

\* A run of the largest number of steps has ended and its times are set.
C1_Finished == pc = "done" /\ N = MaxN /\ i = N /\ Len(t) = N + 1

\* The input -K0 (x_j - xd) + ud of the step that reads sample j (1-based).
C2_Input(j) == VecAdd(VecNeg(MatVec(K0, VecSub(x[j], xd))), ud)

\* C2: every step that has been made used the input u = -K0 (x_j - xd) + ud
\* and wrote x_{j+1} = x_j + dt * CalcF(x_j, u), where x_j is the sample just
\* before the one written; the last call of CalcF was made on the current
\* sample and that input.
C2_EulerFeedback ==
    /\ \A j \in 1..i :
          x[j + 1] = VecAdd(x[j], VecScale(dt, CalcF(hstack(x[j], C2_Input(j)))))
    /\ i >= 1 =>
          /\ x_u = hstack(x[i], C2_Input(i))
          /\ xdot = CalcF(x_u)

\* Two steps were made, the state moved in both and stayed finite.
C2_TwoSteps ==
    /\ i >= 2
    /\ x[2] # x[1]
    /\ x[3] # x[2]
    /\ VecFinite(x[3])

\* C3: whenever CalcF was called at the hover equilibrium (all 12 states
\* zero, each of the 4 inputs mass*g/4) it returned the zero vector.
C3_HoverEquilibrium ==
    x_u = HoverPoint => xdot = <<0, 0, 0, 0, 0, 0, 0, 0, 0, 0, 0, 0>>

\* A loop step called CalcF at the hover equilibrium.
C3_HoverStep == i >= 1 /\ x_u = HoverPoint /\ Len(xdot) = 12

\* C9 as the specification states it: the derivative is, in index order,
\* velocity, translational acceleration, angle rates, angle second
\* derivative.
C9_InterleavedOrder ==
    i >= 1 =>
        /\ SubSeq(xdot, 1, 3) = SubSeq(x_u, 7, 9)
        /\ SubSeq(xdot, 4, 6) = CalcXyzDD(AnglesOf(x_u), InputOf(x_u))
        /\ SubSeq(xdot, 7, 9) = RatesOf(x_u)
        /\ SubSeq(xdot, 10, 12) =
               CalcRpyDD(AnglesOf(x_u), RatesOf(x_u), InputOf(x_u))

\* C9, amended: the derivative returned by CalcF is, in index order, the
\* linear velocity x[6:9], the angle rates x[9:12], the translational
\* acceleration and the angle second derivative.
C9_DerivativeOrder ==
    i >= 1 =>
        /\ SubSeq(xdot, 1, 3) = SubSeq(x_u, 7, 9)
        /\ SubSeq(xdot, 4, 6) = RatesOf(x_u)
        /\ SubSeq(xdot, 7, 9) = CalcXyzDD(AnglesOf(x_u), InputOf(x_u))
        /\ SubSeq(xdot, 10, 12) =
               CalcRpyDD(AnglesOf(x_u), RatesOf(x_u), InputOf(x_u))

\* CalcF returned a finite derivative in which the two orders differ.
C9_OrdersDiffer ==
    /\ i >= 1
    /\ VecFinite(xdot)
    /\ SubSeq(xdot, 4, 6) # SubSeq(xdot, 7, 9)

\* C10: the trajectory is written forward and once.  A step of the program
\* that changes x is loop iteration i, which changes nothing but sample i+1
\* (row i+2 of the model) and advances i by one, so the samples 0..i stay as
\* they are and no sample is written twice; i changes in no other way; and
\* once the loop has ended, plotting and playback leave every sample alone.
C10_AppendOnly ==
    [][ /\ x' # x =>
            /\ pc = "loop"
            /\ i < N
            /\ i' = i + 1
            /\ Len(x') = Len(x)
            /\ \A k \in 1..Len(x) : k # i + 2 => x'[k] = x[k]
        /\ i' # i => (pc = "loop" /\ i' = i + 1 /\ pc' = "loop")
        /\ pc # "loop" => (x' = x /\ pc' # "loop")
      ]_vars

\* The trajectory of a run was plotted and played back to its last sample.
C10_PlayedBack ==
    /\ pc = "done"
    /\ N >= 2
    /\ frame = N + 1
    /\ Len(plots) = 6
    /\ x[N + 1] # x[1]

\* C4 as the specification states it: a sample with a non-finite component
\* ends the run with a NumericalDivergenceError at the step that wrote it,
\* so that it is the last sample written.
C4_FailFast ==
    \A k \in 1..i + 1 :
        ~VecFinite(x[k]) => (raised = "NumericalDivergenceError" /\ k = i + 1)

\* C4, amended: the Simulator does not detect a non-finite sample.  No error
\* is raised, the loop is left only at step N, and a component that is
\* non-finite in one sample is non-finite in the sample after it.
C4_NoDivergenceCheck ==
    /\ raised = "none"
    /\ pc # "loop" => i = N
    /\ \A k \in 1..i : \A c \in 1..n :
          ~IsFinite(x[k][c]) => ~IsFinite(x[k + 1][c])

\* A run ended after writing two more samples behind a non-finite one.
C4_RanOn ==
    /\ pc = "done"
    /\ i = N
    /\ \E k \in 1..N - 1 : ~VecFinite(x[k]) /\ ~VecFinite(x[k + 2])

\* The threshold on |cos(pitch)| of C5: 0.01.
CosThreshold == Micro(10000)

\* A value is divergent: non-finite, or above 1 / (2 CosThreshold).
C5_Divergent(v) == ~IsFinite(v) \/ Abs(v) > Div(One, 2 * CosThreshold)

\* CalcF was called on a state whose |cos(pitch)| is below the threshold.
C5_AtSingularity ==
    /\ i >= 1
    /\ IsFinite(x_u[4])
    /\ IsFinite(x_u[5])
    /\ Abs(Cos(x_u[5])) < CosThreshold

\* C5 as the specification states it: at such a state the dynamics fail with
\* a DomainError.
C5_DomainError == C5_AtSingularity => raised = "DomainError"

\* C5, amended: CalcPhi, CalcPhiD and CalcF do not check cos(pitch).  At a
\* state with |cos(pitch)| below the threshold no error is raised, CalcF
\* returns its 12 components, and the matrices CalcPhi and CalcPhiD return
\* have a divergent entry (sin(roll)/cos(pitch) or cos(roll)/cos(pitch)).
C5_NoDomainCheck ==
    /\ raised = "none"
    /\ C5_AtSingularity =>
          /\ Len(xdot) = n
          /\ \E c \in 2..3 : C5_Divergent(CalcPhi(AnglesOf(x_u))[3][c])
          /\ \E c \in 2..3 : C5_Divergent(CalcPhiD(AnglesOf(x_u))[3][c][1])

\* CalcF was called below the threshold and Phi came back finite and large.
C5_FiniteButLarge ==
    /\ C5_AtSingularity
    /\ MatFinite(CalcPhi(AnglesOf(x_u)))
    /\ pc = "done"

\* C6: the second of two runs on the same x0, parameters, fixed point, gain,
\* dt and N writes, sample by sample, the trajectory the first one wrote.
C6_SameTrajectory ==
    run = 2 =>
        /\ \A k \in 1..i + 1 : x[k] = first[k]
        /\ pc = "done" => x = first

\* Both runs have ended and the trajectory is not constant.
C6_RanTwice ==
    /\ run = 2
    /\ pc = "done"
    /\ N >= 2
    /\ first[3] # first[1]
    /\ first[3] # first[2]

\* Tolerance of C7 in units of the last place, per unit of 1 + 1/|cos(pitch)|.
C7_TolUlp == 2

\* Every entry of the 3x3 matrix A is within tol of the identity's.
C7_NearIdentity(A, tol) ==
    \A r \in 1..3 : \A c \in 1..3 :
        /\ IsFinite(A[r][c])
        /\ Abs(A[r][c] - Eye3[r][c]) <= tol

\* C7: for the angles of every sample, if pitch is strictly inside
\* (-pi/2, pi/2) and the entries of Phi are representable, CalcPhi times
\* CalcPhiInv is the identity within rounding: C7_TolUlp units of the last
\* place times 1 + 1/|cos(pitch)|, the size of Phi's entries.
C7_PhiTimesPhiInv ==
    \A k \in 1..i + 1 :
        LET rpy == SubSeq(x[k], 4, 6)
        IN  (VecFinite(rpy) /\ Abs(rpy[2]) < HalfPi /\ MatFinite(CalcPhi(rpy)))
                => C7_NearIdentity(MatMul(CalcPhi(rpy), CalcPhiInv(rpy)),
                                   C7_TolUlp * (1 + Scale \div Abs(Cos(rpy[2]))))

\* A sample the dynamics were called on has a pitch of more than 1 rad,
\* inside the domain, and a roll.
C7_SteepPitch ==
    \E k \in 1..i :
        /\ VecFinite(SubSeq(x[k], 4, 6))
        /\ Abs(x[k][5]) > One
        /\ Abs(x[k][5]) < HalfPi
        /\ Abs(x[k][4]) > Micro(500000)
        /\ MatFinite(CalcPhi(SubSeq(x[k], 4, 6)))

\* The largest magnitude of a component of v.
C8_Largest(v) ==
    CHOOSE a \in {Abs(v[c]) : c \in 1..Len(v)} :
        \A b \in {Abs(v[c]) : c \in 1..Len(v)} : b <= a

\* C8 as the specification states it, for the trajectory the loop has just
\* completed: no component of a sample exceeds 10 times its initial
\* magnitude, and every component of the last sample is within 1e-3 of 0.
C8_ConvergesTo1e3 ==
    (pc = "loop" /\ i = N) =>
        /\ \A k \in 1..N + 1 : \A c \in 1..n :
              IsFinite(x[k][c]) /\ Abs(x[k][c]) <= 10 * Abs(x0[c])
        /\ \A c \in 1..n : Abs(x[N + 1][c]) <= Micro(1000)

\* C8, amended, for the trajectory the loop has just completed: no component
\* of a sample exceeds 10 times the largest initial magnitude (pi/2, the
\* yaw), and every component of the last sample is within 2e-2 of 0.
C8_ConvergesTo2e2 ==
    (pc = "loop" /\ i = N) =>
        /\ \A k \in 1..N + 1 : \A c \in 1..n :
              IsFinite(x[k][c]) /\ Abs(x[k][c]) <= 10 * C8_Largest(x0)
        /\ \A c \in 1..n : Abs(x[N + 1][c]) <= Micro(20000)

\* The 5000 steps are made, the state has moved towards 0, and the yaw is
\* still more than 1e-3 away from it.
C8_AfterFiveSeconds ==
    /\ pc = "loop"
    /\ N = 5000
    /\ i = N
    /\ x0 = X0Program
    /\ Abs(x[N + 1][6]) > Micro(1000)
    /\ Abs(x[N + 1][6]) < Micro(20000)
====
